---- MODULE Spec2Model ----
(***************************************************************************)
(* Model of snow.request.response.Response: the decoder of one HTTP        *)
(* response of the ServiceNow API.  One instance wraps one response; the   *)
(* owning coroutine calls load() once, then uses the read views            *)
(* (__repr__, __len__, __getitem__, __iter__).                             *)
(*                                                                         *)
(* Python values are tagged records; strings are sequences of characters   *)
(* so that formatting (f"{message}: {detail}") is a real concatenation.    *)
(***************************************************************************)
EXTENDS Integers, Sequences, FiniteSets, TLC

(* ---------------------------- bounds ---------------------------------- *)

\* longest list carried in a "result" field
MaxItems == 2

(* ------------------------- program constants --------------------------- *)

\* load(): `if self.status == 204`
NoContent == 204

\* _handle_error(): the status passed to UnexpectedResponseContent
UnexpectedStatus == 200

(* --------------------------- Python values ----------------------------- *)

None == [t |-> "none"]
Str(s) == [t |-> "str", s |-> s]
List(items) == [t |-> "list", items |-> items]
Dict(fields) == [t |-> "dict", fields |-> fields]

\* the attribute `data` does not exist on the instance
Unset == [t |-> "unset"]
\* a key that the JSON object does not have
Absent == [t |-> "absent"]
\* self.json() raised instead of returning a value
JsonRaise == [t |-> "raise"]

EmptyDict == Dict(<<>>)

\* bool(v) of Python
Truthy(v) ==
    CASE v.t = "none" -> FALSE
      [] v.t = "str"  -> Len(v.s) > 0
      [] v.t = "list" -> Len(v.items) > 0
      [] v.t = "dict" -> DOMAIN v.fields # {}
      [] OTHER        -> FALSE

(* --------------------------- input domains ----------------------------- *)

Statuses == {200, 201, 204, 302, 400, 500}
Reasons == {<<"O", "K">>, <<"E", "r", "r">>}
Texts == {<<>>, <<"<", "h", ">">>}

Rec1 == Dict([id |-> Str(<<"1">>)])
Rec2 == Dict([id |-> Str(<<"2">>)])
Records == {Rec1, Rec2}

RECURSIVE SeqsUpTo(_, _)
SeqsUpTo(S, n) ==
    IF n = 0 THEN {<<>>}
    ELSE LET shorter == SeqsUpTo(S, n - 1)
         IN  shorter \cup {Append(q, x) : q \in {r \in shorter : Len(r) = n - 1}, x \in S}

\* what a "result" field can carry: a list of records, one record, an
\* empty object, or a scalar
ResultValues ==
    {List(q) : q \in SeqsUpTo(Records, MaxItems)}
        \cup {EmptyDict, Rec1, Str(<<"x">>)}

Messages == {<<"M">>, <<"B", "a", "d">>}
Details == {None, Str(<<>>), Str(<<"d", "t">>)}
ErrorValues == {[message |-> Str(m), detail |-> d] : m \in Messages, d \in Details}

\* a JSON object with the given error field, result field and, when x, an
\* unknown top-level field
Envelope(e, r, x) ==
    LET full == [k \in {"error", "result", "sys_extra"} |->
                    CASE k = "error" -> e
                      [] k = "result" -> r
                      [] OTHER -> Str(<<"u">>)]
        keys == (IF e = Absent THEN {} ELSE {"error"})
                    \cup (IF r = Absent THEN {} ELSE {"result"})
                    \cup (IF x THEN {"sys_extra"} ELSE {})
    IN  Dict([k \in keys |-> full[k]])

Mappings ==
    {Envelope(e, r, x) : e \in {Absent} \cup ErrorValues,
                         r \in {Absent} \cup ResultValues,
                         x \in BOOLEAN}

\* parsed bodies that are not a JSON object: empty body (None), a JSON
\* string, a JSON array
NonMappings == {None, Str(<<"o", "k">>), List(<<>>), List(<<Rec1>>)}

Bodies == Mappings \cup NonMappings \cup {JsonRaise}

IsMapping(v) == v.t = "dict"

(* ------------------------------ state ---------------------------------- *)

VARIABLES
    status,     \* self.status
    reason,     \* self.reason
    body,       \* what self.json() produces for the received body
    text,       \* what self.text() produces
    pc,         \* position of the load() coroutine
    parsed,     \* local `data` of load()
    data,       \* self.data
    exc,        \* the exception load() propagated
    view        \* the last read-view call and its outcome

vars == <<status, reason, body, text, pc, parsed, data, exc, view>>

NoExc == [type |-> "none", message |-> <<>>, status |-> 0]
Exc(type, message, st) == [type |-> type, message |-> message, status |-> st]

NoView == [op |-> "none", at |-> "pending", raised |-> "none", value |-> 0]

Init ==
    /\ status \in Statuses
    /\ reason \in Reasons
    /\ body \in Bodies
    /\ text \in Texts
    /\ pc = "pending"
    /\ parsed = Unset
    /\ data = Unset
    /\ exc = NoExc
    /\ view = NoView

(* ------------------- collaborators of load() --------------------------- *)

\* aiohttp ClientResponse.raise_for_status(): raises ClientResponseError
\* (message = reason, code = status) when the status is 400 or above,
\* returns otherwise
RaiseForStatus(st, rs) ==
    IF st >= 400 THEN Exc("ClientResponseError", rs, st) ELSE NoExc

\* ContentSchema(unknown=EXCLUDE, many=False).load(data): keeps the error
\* and result fields that are present, drops every other field; a value
\* that is not a mapping is rejected
ValidationError == [t |-> "invalid"]
ContentSchemaLoad(v) ==
    IF ~IsMapping(v) THEN ValidationError
    ELSE Dict([k \in DOMAIN v.fields \cap {"error", "result"} |-> v.fields[k]])

(* --------------------- helpers of load() ------------------------------- *)

\* faulty variant: the detail is never appended
ErrorMessage_NoDetail(err) == err.message.s

\* msg = f"{err['message']}: {err['detail']}" if err["detail"] else err["message"]
ErrorMessage(err) ==
    IF Truthy(err.detail)
    THEN err.message.s \o <<":", " ">> \o err.detail.s
    ELSE err.message.s

\* raise RequestError(msg, self.status)
RequestErrorOf(err, st) == Exc("RequestError", ErrorMessage(err), st)

\* faulty variant: the whole validated envelope is stored
ResultOf_Whole(content) == content

\* content["result"]
ResultOf(content) == content.fields["result"]

\* faulty variant: the status of the response is dropped
ServerErrorOf_NoStatus(e) == Exc("ServerError", e.message, 0)

\* raise ServerError(exc.message, exc.code) from exc
ServerErrorOf(e) == Exc("ServerError", e.message, e.status)

UnexpectedPrefix ==
    <<"U", "n", "e", "x", "p", "e", "c", "t", "e", "d", " ", "r", "e", "s", "p", "o", "n", "s", "e", " ", "r", "e", "c", "e", "i", "v", "e", "d", " ", "f", "r", "o", "m", " ", "s", "e", "r", "v", "e", "r", ":", " ">>

\* faulty variant: the status of the response is passed on
UnexpectedOf_ActualStatus(txt, st) ==
    Exc("UnexpectedResponseContent", UnexpectedPrefix \o txt, st)

\* raise UnexpectedResponseContent(f"Unexpected response received from server: {text}", 200)
UnexpectedOf(txt, st) ==
    Exc("UnexpectedResponseContent", UnexpectedPrefix \o txt, UnexpectedStatus)

(* ------------------------------ load() --------------------------------- *)

\* data = await self.json()
LoadJson ==
    /\ pc = "pending"
    /\ IF body = JsonRaise
       THEN /\ exc' = Exc("JSONError", <<>>, 0)
            /\ pc' = "raised"
            /\ UNCHANGED parsed
       ELSE /\ parsed' = body
            /\ pc' = "parsed"
            /\ UNCHANGED exc
    /\ UNCHANGED <<status, reason, body, text, data, view>>

\* faulty variant: the 204 branch does not return
LoadCheck_NoReturn ==
    /\ pc = "parsed"
    /\ IF ~IsMapping(parsed)
       THEN IF status = NoContent
            THEN data' = EmptyDict /\ pc' = "handle_error"
            ELSE pc' = "handle_error" /\ UNCHANGED data
       ELSE pc' = "validate" /\ UNCHANGED data
    /\ UNCHANGED <<status, reason, body, text, parsed, exc, view>>

\* faulty variant: there is no 204 branch
LoadCheck_NoShortCircuit ==
    /\ pc = "parsed"
    /\ IF ~IsMapping(parsed)
       THEN pc' = "handle_error"
       ELSE pc' = "validate"
    /\ UNCHANGED <<status, reason, body, text, parsed, data, exc, view>>

\* if not isinstance(data, dict):
\*     if self.status == 204: self.data = {}; return
\*     await self._handle_error()
LoadCheck ==
    /\ pc = "parsed"
    /\ IF ~IsMapping(parsed)
       THEN IF status = NoContent
            THEN data' = EmptyDict /\ pc' = "returned"
            ELSE pc' = "handle_error" /\ UNCHANGED data
       ELSE pc' = "validate" /\ UNCHANGED data
    /\ UNCHANGED <<status, reason, body, text, parsed, exc, view>>

\* _handle_error(): try: self.raise_for_status() except ...: raise ServerError
HandleErrorStatus ==
    /\ pc = "handle_error"
    /\ LET e == RaiseForStatus(status, reason)
       IN  IF e # NoExc
           THEN exc' = ServerErrorOf(e) /\ pc' = "raised"
           ELSE pc' = "read_text" /\ UNCHANGED exc
    /\ UNCHANGED <<status, reason, body, text, parsed, data, view>>

\* faulty variant: the unexpected content is not raised, _handle_error returns
HandleErrorText_Returns ==
    /\ pc = "read_text"
    /\ pc' = "validate"
    /\ UNCHANGED <<status, reason, body, text, parsed, data, exc, view>>

\* _handle_error(): else: text = await self.text(); raise UnexpectedResponseContent
HandleErrorText ==
    /\ pc = "read_text"
    /\ exc' = UnexpectedOf(text, status)
    /\ pc' = "raised"
    /\ UNCHANGED <<status, reason, body, text, parsed, data, view>>

\* faulty variant: the result is stored before the error field is looked at
LoadValidate_AssignFirst ==
    /\ pc = "validate"
    /\ LET content == ContentSchemaLoad(parsed)
       IN  IF content = ValidationError
           THEN exc' = Exc("ValidationError", <<>>, 0) /\ pc' = "raised" /\ UNCHANGED data
           ELSE IF "result" \notin DOMAIN content.fields
           THEN exc' = Exc("KeyError", <<>>, 0) /\ pc' = "raised" /\ UNCHANGED data
           ELSE IF "error" \in DOMAIN content.fields
           THEN /\ data' = ResultOf(content)
                /\ exc' = RequestErrorOf(content.fields["error"], status)
                /\ pc' = "raised"
           ELSE data' = ResultOf(content) /\ pc' = "returned" /\ UNCHANGED exc
    /\ UNCHANGED <<status, reason, body, text, parsed, view>>

\* content = ContentSchema(unknown=EXCLUDE, many=False).load(data)
\* if "error" in content: raise RequestError(msg, self.status)
\* self.data = content["result"]
LoadValidate ==
    /\ pc = "validate"
    /\ LET content == ContentSchemaLoad(parsed)
       IN  IF content = ValidationError
           THEN exc' = Exc("ValidationError", <<>>, 0) /\ pc' = "raised" /\ UNCHANGED data
           ELSE IF "error" \in DOMAIN content.fields
           THEN /\ exc' = RequestErrorOf(content.fields["error"], status)
                /\ pc' = "raised"
                /\ UNCHANGED data
           ELSE IF "result" \in DOMAIN content.fields
           THEN data' = ResultOf(content) /\ pc' = "returned" /\ UNCHANGED exc
           ELSE exc' = Exc("KeyError", <<>>, 0) /\ pc' = "raised" /\ UNCHANGED data
    /\ UNCHANGED <<status, reason, body, text, parsed, view>>

(* ----------------------------- read views ------------------------------ *)

Index(i) == [k |-> "index", i |-> i, s |-> ""]
Key(s) == [k |-> "key", i |-> 0, s |-> s]
Keys == {Index(0), Index(MaxItems), Key("id")}

Outcome(raised, value) == [raised |-> raised, value |-> value]

RECURSIVE SetToSeq(_)
SetToSeq(S) ==
    IF S = {} THEN <<>>
    ELSE LET x == CHOOSE y \in S : TRUE IN <<x>> \o SetToSeq(S \ {x})

Overview(summary, n) == [summary |-> summary, n |-> n]

\* __repr__: reading self.data raises AttributeError while the attribute
\* does not exist (the class only annotates it)
ReprOf(d, path, st, rs) ==
    LET content_overview ==
            IF d.t = "list" THEN Overview("List of N items", Len(d.items))
            ELSE IF Truthy(d) /\ d.t = "dict"
            THEN Overview("Object contained in a dictionary", 0)
            ELSE Overview("Unknown", 0)
    IN  IF d = Unset THEN Outcome("AttributeError", 0)
        ELSE Outcome("none", [path |-> path, status |-> st, reason |-> rs,
                              content |-> content_overview])

\* faulty variant: the length of the container, whatever it is
LenOf_Container(d) ==
    IF d = Unset THEN Outcome("AttributeError", 0)
    ELSE IF d.t = "list" THEN Outcome("none", Len(d.items))
    ELSE IF d.t = "dict" THEN Outcome("none", Cardinality(DOMAIN d.fields))
    ELSE IF d.t = "str" THEN Outcome("none", Len(d.s))
    ELSE Outcome("TypeError", 0)

\* __len__
LenOf(d) ==
    IF d = Unset THEN Outcome("AttributeError", 0)
    ELSE IF d.t = "list" THEN Outcome("none", Len(d.items))
    ELSE Outcome("none", 1)

\* __getitem__: self.data[key]
GetItemOf(d, key) ==
    IF d = Unset THEN Outcome("AttributeError", 0)
    ELSE IF d.t = "list"
    THEN IF key.k # "index" THEN Outcome("TypeError", 0)
         ELSE IF key.i < Len(d.items) THEN Outcome("none", d.items[key.i + 1])
         ELSE Outcome("IndexError", 0)
    ELSE IF d.t = "dict"
    THEN IF key.k = "key" /\ key.s \in DOMAIN d.fields
         THEN Outcome("none", d.fields[key.s])
         ELSE Outcome("KeyError", 0)
    ELSE IF d.t = "str"
    THEN IF key.k # "index" THEN Outcome("TypeError", 0)
         ELSE IF key.i < Len(d.s) THEN Outcome("none", Str(<<d.s[key.i + 1]>>))
         ELSE Outcome("IndexError", 0)
    ELSE Outcome("TypeError", 0)

\* __iter__: yield from self.data (a dictionary yields its keys)
IterOf(d) ==
    IF d = Unset THEN Outcome("AttributeError", 0)
    ELSE IF d.t = "list" THEN Outcome("none", d.items)
    ELSE IF d.t = "dict" THEN Outcome("none", SetToSeq(DOMAIN d.fields))
    ELSE IF d.t = "str" THEN Outcome("none", [i \in 1..Len(d.s) |-> Str(<<d.s[i]>>)])
    ELSE Outcome("TypeError", 0)

\* the owning coroutine is not inside load()
Idle == pc \in {"pending", "returned", "raised"}

View(op, o) == [op |-> op, at |-> pc, raised |-> o.raised, value |-> o.value]

UrlPath == <<"/", "a", "p", "i">>

Repr ==
    /\ Idle
    /\ view' = View("repr", ReprOf(data, UrlPath, status, reason))
    /\ UNCHANGED <<status, reason, body, text, pc, parsed, data, exc>>

LenCall ==
    /\ Idle
    /\ view' = View("len", LenOf(data))
    /\ UNCHANGED <<status, reason, body, text, pc, parsed, data, exc>>

GetItem ==
    /\ Idle
    /\ \E key \in Keys : view' = View("getitem", GetItemOf(data, key))
    /\ UNCHANGED <<status, reason, body, text, pc, parsed, data, exc>>

Iter ==
    /\ Idle
    /\ view' = View("iter", IterOf(data))
    /\ UNCHANGED <<status, reason, body, text, pc, parsed, data, exc>>

(* --------------------------- specification ----------------------------- *)

Load ==
    \/ LoadJson
    \/ LoadCheck
    \/ HandleErrorStatus
    \/ HandleErrorText
    \/ LoadValidate

ReadView ==
    \/ Repr
    \/ LenCall
    \/ GetItem
    \/ Iter

Next ==
    \/ Load
    \/ ReadView

Spec == Init /\ [][Next]_vars

\* load() was called and has finished
Done == pc \in {"returned", "raised"}

TypeOK ==
    /\ status \in Statuses
    /\ pc \in {"pending", "parsed", "handle_error", "read_text", "validate",
               "returned", "raised"}
    /\ data.t \in {"unset", "list", "dict", "str"}

(* ------------------------------ claims --------------------------------- *)

HasKey(v, k) == IsMapping(v) /\ k \in DOMAIN v.fields

\* json() returned a value that is not a JSON object
NonMappingParsed == parsed # Unset /\ ~IsMapping(parsed)

\* t occurs in m as a contiguous run
Contains(m, t) ==
    \E i \in 0..(Len(m) - Len(t)) : SubSeq(m, i + 1, i + Len(t)) = t

\* C1: once load() has finished, data is set exactly when load() returned
\* without raising; a load() that raised RequestError, ServerError or
\* UnexpectedResponseContent has left data unset.
C1_DataSetIffReturned ==
    Done =>
        /\ (data # Unset) <=> (pc = "returned")
        /\ (pc = "returned") <=> (exc = NoExc)
        /\ exc.type \in {"RequestError", "ServerError", "UnexpectedResponseContent"}
              => data = Unset

\* a RequestError raised for an envelope that also carried a result
C1_Witness ==
    /\ pc = "raised"
    /\ exc.type = "RequestError"
    /\ HasKey(parsed, "result")
    /\ data = Unset

\* C2 as stated: with status 204, whatever the parsed body, load() sets
\* data to the empty mapping and raises nothing.
C2_Original ==
    (Done /\ parsed # Unset /\ status = NoContent) =>
        /\ pc = "returned"
        /\ data = EmptyDict
        /\ exc = NoExc

\* C2 amended: with status 204 and a parsed body that is not a JSON object,
\* load() sets data to the empty mapping and raises nothing; a JSON object
\* received with status 204 is decoded like any other envelope.
C2_NoContentNonMapping ==
    (Done /\ parsed # Unset /\ status = NoContent) =>
        /\ ~IsMapping(parsed) =>
              pc = "returned" /\ data = EmptyDict /\ exc = NoExc
        /\ HasKey(parsed, "error") =>
              pc = "raised" /\ exc.type = "RequestError" /\ data = Unset
        /\ (HasKey(parsed, "result") /\ ~HasKey(parsed, "error")) =>
              pc = "returned" /\ data = parsed.fields["result"]

C2_Witness ==
    /\ pc = "returned"
    /\ status = NoContent
    /\ parsed = None
    /\ data = EmptyDict

C4_ResultAssigned ==
    (Done /\ HasKey(parsed, "result") /\ ~HasKey(parsed, "error")) =>
        /\ pc = "returned"
        /\ exc = NoExc
        /\ data = parsed.fields["result"]

C4_Witness ==
    /\ pc = "returned"
    /\ HasKey(parsed, "sys_extra")
    /\ data = List(<<Rec1, Rec2>>)

C7_Lifecycle ==
    /\ (pc = "pending" /\ data = Unset)
    /\ [][/\ Done => (pc' = pc /\ data' = data /\ exc' = exc)
          /\ (data # Unset) => (data' = data)
          /\ (data' # Unset) <=> (pc' = "returned")
          /\ (pc' = "raised") <=> (exc' # NoExc)
          /\ (view' # view) => (data' = data /\ pc' = pc)]_vars

\* a read view used after a load() that returned
C7_Witness ==
    /\ pc = "returned"
    /\ data # Unset
    /\ view.op = "getitem"
    /\ view.at = "returned"

\* C8: after a load() that returned, len() is the number of items when data
\* is a list and 1 when data is a mapping, the empty mapping included.
C8_Len ==
    (pc = "returned" /\ view.op = "len" /\ view.at = "returned") =>
        /\ view.raised = "none"
        /\ data.t = "list" => view.value = Len(data.items)
        /\ data.t = "dict" => view.value = 1

\* len() of the empty mapping of the 204 path
C8_Witness ==
    /\ pc = "returned"
    /\ status = NoContent
    /\ data = EmptyDict
    /\ view.op = "len"
    /\ view.at = "returned"
    /\ view.value = 1

\* C9: in every lifecycle state repr() is produced without error; its
\* content summary is "List of N items" for a list of N items, "Object
\* contained in a dictionary" for a non-empty mapping and "Unknown" when
\* data is unset or an empty mapping.
C9_ReprInEveryState ==
    (view.op = "repr") =>
        /\ view.raised = "none"
        /\ LET d == IF view.at = "returned" THEN data ELSE Unset
               c == view.value.content
           IN  /\ d.t = "list" => c = Overview("List of N items", Len(d.items))
               /\ (d.t = "dict" /\ d # EmptyDict)
                     => c = Overview("Object contained in a dictionary", 0)
               /\ (d = Unset \/ d = EmptyDict) => c = Overview("Unknown", 0)

\* C10: _handle_error is entered only with a parsed body that is not a
\* mapping and a status other than 204; it is left only by raising
\* ServerError or UnexpectedResponseContent; envelope validation is never
\* reached with a body that is not a mapping.
InHandleError == pc \in {"handle_error", "read_text"}
C10_HandleErrorNeverReturns ==
    [][/\ InHandleError' => (~IsMapping(parsed') /\ status' # NoContent)
       /\ (InHandleError /\ pc' # pc) =>
              \/ InHandleError'
              \/ /\ pc' = "raised"
                 /\ exc'.type \in {"ServerError", "UnexpectedResponseContent"}
       /\ (pc' = "validate") => IsMapping(parsed')]_vars

\* a JSON array received with a success status
C10_Witness ==
    /\ pc = "raised"
    /\ parsed = List(<<Rec1>>)
    /\ exc.type = "UnexpectedResponseContent"

====
